---------------------------- MODULE Spec2Model ----------------------------
(***************************************************************************)
(* A model of foggybot.py: one run of main() as a sequential pipeline      *)
(*   YouTube thumbnail lookup -> thumbnail download -> weather.gov fetch   *)
(*   -> prompt composition -> model call -> weather_report.json.           *)
(* Every external call (HTTP request, file operation, model call) is a     *)
(* step whose outcome is drawn from the outcomes the environment can give. *)
(*                                                                         *)
(* Representation.                                                         *)
(*   Optional[T]   None is <<>>, a present value v is <<v>>.               *)
(*   dict / JSON   a record; a missing key is a field outside DOMAIN.      *)
(*   str (text)    a sequence of one-character strings.                    *)
(*   float         fixed point: Fahrenheit in 1/FScale degree, miles per   *)
(*                 hour in 1/MphScale, so that c*9/5+32 and v*2.237 are    *)
(*                 exact on whole-number inputs.                           *)
(***************************************************************************)
EXTENDS Integers, Sequences, FiniteSets, TLC

VARIABLES
    pc,               \* position of the run inside main() and its callees
    api_key,          \* os.getenv("YOUTUBE_API_KEY")
    exit_code,        \* None while running, then <<0>> or <<1>>
    raised,           \* the exception that escaped main(), "" if none
    escaped_from,     \* function whose body let that exception out, "" if none
    calls,            \* external calls made so far, in order
    logged,           \* logger.error diagnostics so far, in order
    response,         \* get_live_thumbnail: local `response`
    thumbnail_url,    \* main: thumbnail_url
    body,             \* download: chunks the HTTP response will deliver
    fail_at,          \* download: number of chunks delivered before the
                      \*   transfer breaks (Len(body)+1: it does not break)
    chunks_read,      \* download: chunks consumed from iter_content so far
    dl_error,         \* download: which step raised, "" if none
    dated_file,       \* captures/Y/m/d/capture_<timestamp>.jpg
    latest_file,      \* captures/capture_latest.jpg
    latest_before,    \* content of capture_latest.jpg when download was called
    captured_file,    \* main: captured_file
    point_data,       \* get_weather_data: local point_data
    forecast_data,    \* get_weather_data: local forecast_data
    stations_data,    \* _get_observation_data: local stations_data
    observation_data, \* get_weather_data: local observation_data
    wx_error,         \* get_weather_data: which step raised, "" if none
    weather_data,     \* main: weather_data
    prompt,           \* generate_report: local `forecasts`
    response_text,    \* generate_report: local response_text
    result,           \* main: result
    report_file       \* weather_report.json: [opened, content]

vars == <<pc, api_key, exit_code, raised, escaped_from, calls, logged,
          response, thumbnail_url, body, fail_at, chunks_read, dl_error,
          dated_file, latest_file, latest_before, captured_file,
          point_data, forecast_data, stations_data, observation_data,
          wx_error, weather_data, prompt, response_text, result, report_file>>

---------------------------------------------------------------------------
(* Bounds of the model *)

MaxChunks == 2
MaxPeriods == 3
MaxLen == 9

---------------------------------------------------------------------------
(* Python values *)

None == <<>>
Some(v) == <<v>>

\* Python truthiness of an Optional[str] / Optional[dict]: None and "" are
\* falsy; a dict with at least one key is truthy.
Falsy(x) == x = None \/ x = Some("")
FalsyDict(x) == x = None \/ DOMAIN x[1] = {}

Min(a, b) == IF a <= b THEN a ELSE b

Has(rec, key) == key \in DOMAIN rec

---------------------------------------------------------------------------
(* Constants of the program *)

\* the tiers tried from the lowest up
QUALITIES_LowestFirst == <<"default", "high", "maxres">>

QUALITIES == <<"maxres", "high", "default">>

---------------------------------------------------------------------------
(* YouTubeClient.get_live_thumbnail *)

ThumbnailUrl(q) == [url |-> "https://i.ytimg.com/" \o q]

\* thumbnails dicts: every subset of the three tiers
ThumbnailDicts ==
    { [q \in S |-> ThumbnailUrl(q)] : S \in SUBSET {"maxres", "high", "default"} }

\* responses of videos().list(...).execute()
YouTubeResponses ==
    { [items |-> <<>>] }
    \cup { [items |-> << [snippet |-> [thumbnails |-> t]] >>] : t \in ThumbnailDicts }
    \cup { [items |-> << [liveStreamingDetails |-> [live |-> TRUE],
                          snippet |-> [thumbnails |-> t]] >>] : t \in ThumbnailDicts }
    \cup { [items |-> << [liveStreamingDetails |-> [live |-> TRUE]] >>],
           [items |-> << [liveStreamingDetails |-> [live |-> TRUE],
                          snippet |-> [thumbnails |-> [high |-> [width |-> 480]]]] >>],
           [items |-> << [liveStreamingDetails |-> [live |-> TRUE],
                          snippet |-> [thumbnails |-> [default |-> [url |-> ""]]]] >>],
           [kind |-> "youtube#videoListResponse"] }

\* for quality in ["maxres", "high", "default"]: if quality in thumbnails
RECURSIVE FirstQuality(_, _)
FirstQuality(thumbnails, i) ==
    IF i > Len(QUALITIES) THEN None
    ELSE IF Has(thumbnails, QUALITIES[i]) THEN Some(QUALITIES[i])
    ELSE FirstQuality(thumbnails, i + 1)

\* The body of the try block after execute(): [value, log], where log is the
\* logger.error diagnostic ("" when nothing is logged).
SelectThumbnail(resp) ==
    IF ~Has(resp, "items") THEN [value |-> None, log |-> "yt.exception"]
    ELSE IF resp.items = <<>> THEN [value |-> None, log |-> "yt.not_found"]
    ELSE LET video == resp.items[1] IN
         IF ~Has(video, "liveStreamingDetails")
         THEN [value |-> None, log |-> "yt.not_live"]
         ELSE IF ~Has(video, "snippet") THEN [value |-> None, log |-> "yt.exception"]
         ELSE LET thumbnails == video.snippet.thumbnails
                  q == FirstQuality(thumbnails, 1)
              IN IF q = None THEN [value |-> None, log |-> ""]
                 ELSE IF ~Has(thumbnails[q[1]], "url")
                      THEN [value |-> None, log |-> "yt.exception"]
                      ELSE [value |-> Some(thumbnails[q[1]].url), log |-> ""]

Log(msg) == IF msg = "" THEN logged ELSE Append(logged, msg)


---------------------------------------------------------------------------
(* The run's control: leaving main() *)

\* the exception is swallowed at the top level and the process ends normally
Abort_StatusZero(exc, fn) ==
    /\ pc' = "exited"
    /\ exit_code' = Some(0)
    /\ raised' = exc
    /\ escaped_from' = fn

\* An exception leaves main(): the interpreter prints the traceback and the
\* process ends with status 1.
Abort(exc, fn) ==
    /\ pc' = "exited"
    /\ exit_code' = Some(1)
    /\ raised' = exc
    /\ escaped_from' = fn

Running == /\ UNCHANGED <<exit_code, raised, escaped_from>>

yt_vars == <<response, thumbnail_url>>
dl_vars == <<body, fail_at, chunks_read, dl_error, dated_file, latest_file,
             latest_before, captured_file>>
wx_vars == <<point_data, forecast_data, stations_data, observation_data, wx_error,
             weather_data>>
gr_vars == <<prompt, response_text, result>>

---------------------------------------------------------------------------
(* main(), lines 341-348, and get_live_thumbnail *)

\* api_key = os.getenv(...); if not api_key: raise ValueError
Main_GetApiKey ==
    /\ pc = "start"
    /\ IF Falsy(api_key)
       THEN Abort("ValueError", "main")
       ELSE pc' = "yt_build" /\ Running
    /\ UNCHANGED <<api_key, calls, logged, yt_vars, dl_vars, wx_vars, gr_vars,
                   report_file>>

\* youtube_client = YouTubeClient(api_key): build(...) returns or raises
Main_BuildClient ==
    /\ pc = "yt_build"
    /\ \E ok \in BOOLEAN :
          IF ok THEN pc' = "yt_execute" /\ Running
          ELSE Abort("BuildError", "YouTubeClient.__init__")
    /\ UNCHANGED <<api_key, calls, logged, yt_vars, dl_vars, wx_vars, gr_vars,
                   report_file>>

\* request.execute(): a response, or an exception caught at line 58
GetLiveThumbnail_Execute ==
    /\ pc = "yt_execute"
    /\ calls' = Append(calls, "youtube.videos.list")
    /\ \/ \E resp \in YouTubeResponses :
             /\ response' = Some(resp)
             /\ pc' = "yt_select"
             /\ UNCHANGED <<thumbnail_url, logged>>
       \/ /\ response' = None
          /\ thumbnail_url' = None
          /\ logged' = Append(logged, "yt.exception")
          /\ pc' = "yt_returned"
    /\ Running
    /\ UNCHANGED <<api_key, dl_vars, wx_vars, gr_vars, report_file>>

\* lines 44-60: the checks on the response and the choice of the quality
GetLiveThumbnail_Select ==
    /\ pc = "yt_select"
    /\ LET r == SelectThumbnail(response[1]) IN
          /\ thumbnail_url' = r.value
          /\ logged' = Log(r.log)
    /\ pc' = "yt_returned"
    /\ Running
    /\ UNCHANGED <<api_key, calls, response, dl_vars, wx_vars, gr_vars, report_file>>

\* the check of the lookup's result left out
Main_CheckThumbnail_NoCheck ==
    /\ pc = "yt_returned"
    /\ response' = None
    /\ pc' = "dl_request"
    /\ Running
    /\ UNCHANGED <<api_key, calls, logged, thumbnail_url, dl_vars, wx_vars, gr_vars,
                   report_file>>

\* if not thumbnail_url: raise RuntimeError   (the callee's frame is gone)
Main_CheckThumbnail ==
    /\ pc = "yt_returned"
    /\ response' = None
    /\ IF Falsy(thumbnail_url)
       THEN Abort("RuntimeError", "main")
       ELSE pc' = "dl_request" /\ Running
    /\ UNCHANGED <<api_key, calls, logged, thumbnail_url, dl_vars, wx_vars, gr_vars,
                   report_file>>

---------------------------------------------------------------------------
(* ThumbnailDownloader.download *)

Chunk(i) == i
\* the body the server would deliver in full: n chunks, all different
Body(n) == [i \in 1..n |-> Chunk(i)]

\* the except clause of download: log and return None
Download_Fail(step) ==
    /\ dl_error' = step
    /\ logged' = Append(logged, "dl.exception")
    /\ captured_file' = None
    /\ pc' = "dl_returned"

\* lines 69-86: makedirs, requests.get(url, stream=True), raise_for_status
Download_Request ==
    /\ pc = "dl_request"
    /\ latest_before' = latest_file
    /\ \/ /\ Download_Fail("makedirs")
          /\ UNCHANGED <<calls, body, fail_at, chunks_read>>
       \/ /\ calls' = Append(calls, "thumbnail.get")
          /\ \/ /\ Download_Fail("request")
                /\ UNCHANGED <<body, fail_at, chunks_read>>
             \/ \E n \in 0..MaxChunks : \E k \in 0..(n + 1) :
                   /\ body' = Body(n)
                   /\ fail_at' = k
                   /\ chunks_read' = 0
                   /\ pc' = "dl_open"
                   /\ UNCHANGED <<dl_error, logged, captured_file>>
    /\ Running
    /\ UNCHANGED <<api_key, yt_vars, dated_file, latest_file, wx_vars, gr_vars,
                   report_file>>

\* both files opened for writing in one with statement, before the transfer
Download_OpenDated_AndLatest ==
    /\ pc = "dl_open"
    /\ \/ /\ dated_file' = Some(<<>>)
          /\ latest_file' = Some(<<>>)
          /\ pc' = "dl_write"
          /\ UNCHANGED <<dl_error, logged, captured_file>>
       \/ /\ Download_Fail("open")
          /\ UNCHANGED <<dated_file, latest_file>>
    /\ Running
    /\ UNCHANGED <<api_key, calls, yt_vars, body, fail_at, chunks_read,
                   latest_before, wx_vars, gr_vars, report_file>>

\* line 89: open(filename, "wb") creates the dated file empty, or raises
Download_OpenDated ==
    /\ pc = "dl_open"
    /\ \/ /\ dated_file' = Some(<<>>)
          /\ pc' = "dl_write"
          /\ UNCHANGED <<dl_error, logged, captured_file>>
       \/ /\ Download_Fail("open")
          /\ UNCHANGED dated_file
    /\ Running
    /\ UNCHANGED <<api_key, calls, yt_vars, body, fail_at, chunks_read, latest_file,
                   latest_before, wx_vars, gr_vars, report_file>>

\* lines 90-91: one turn of `for chunk in response.iter_content(...)`:
\* the next chunk is written, the transfer breaks, or the body has ended
Download_WriteChunk ==
    /\ pc = "dl_write"
    /\ IF chunks_read = fail_at
       THEN /\ Download_Fail("transfer")
            /\ UNCHANGED <<dated_file, chunks_read>>
       ELSE IF chunks_read < Len(body)
       THEN /\ dated_file' = Some(Append(dated_file[1], body[chunks_read + 1]))
            /\ chunks_read' = chunks_read + 1
            /\ UNCHANGED <<pc, dl_error, logged, captured_file>>
       ELSE /\ pc' = "dl_copy_open"
            /\ UNCHANGED <<dated_file, chunks_read, dl_error, logged, captured_file>>
    /\ Running
    /\ UNCHANGED <<api_key, calls, yt_vars, body, fail_at, latest_file, latest_before,
                   wx_vars, gr_vars, report_file>>

\* line 94: open(filename, "rb"), open(latest_filename, "wb"): the latest
\* file is created or truncated, or the open raises
Download_OpenLatest ==
    /\ pc = "dl_copy_open"
    /\ \/ /\ latest_file' = Some(<<>>)
          /\ pc' = "dl_copy"
          /\ UNCHANGED <<dl_error, logged, captured_file>>
       \/ /\ Download_Fail("copy")
          /\ UNCHANGED latest_file
    /\ Running
    /\ UNCHANGED <<api_key, calls, yt_vars, body, fail_at, chunks_read, dated_file,
                   latest_before, wx_vars, gr_vars, report_file>>

\* what dst.write(src.read()) leaves in the latest file
CopyContent(src) == src

\* lines 95-99: dst.write(src.read()), the two log lines, return filename
Download_CopyLatest ==
    /\ pc = "dl_copy"
    /\ \/ /\ latest_file' = Some(CopyContent(dated_file[1]))
          /\ captured_file' = Some("capture_timestamp.jpg")
          /\ pc' = "dl_returned"
          /\ UNCHANGED <<dl_error, logged>>
       \/ /\ Download_Fail("copy")
          /\ UNCHANGED latest_file
    /\ Running
    /\ UNCHANGED <<api_key, calls, yt_vars, body, fail_at, chunks_read, dated_file,
                   latest_before, wx_vars, gr_vars, report_file>>

\* if not captured_file: raise RuntimeError
Main_CheckDownload ==
    /\ pc = "dl_returned"
    /\ body' = <<>> /\ fail_at' = 0 /\ chunks_read' = 0
    /\ IF Falsy(captured_file)
       THEN Abort("RuntimeError", "main")
       ELSE pc' = "wx_point" /\ Running
    /\ UNCHANGED <<api_key, calls, logged, yt_vars, dl_error, dated_file, latest_file,
                   latest_before, captured_file, wx_vars, gr_vars, report_file>>

---------------------------------------------------------------------------
(* WeatherGov: the upstream responses *)

\* EVANSTON_COORDINATES, in millionths of a degree
LATITUDE == 42032931
LONGITUDE == -87680432

\* number of forecast periods kept by periods[:2]
FORECAST_KEPT == 2

\* the divisor of 9 / 5 and the three decimals of 2.237: temperature_f is held
\* in 1/FScale degree and wind_speed_mph in 1/MphScale, which keeps both exact
FScale == 5
MphScale == 1000

FullLocation == [properties |-> [city |-> "Evanston", state |-> "IL"]]

PointJsons ==
    { [properties |-> [forecast |-> "url/forecast", observationStations |-> "url/stations",
                       relativeLocation |-> FullLocation]],
      [properties |-> [observationStations |-> "url/stations",
                       relativeLocation |-> FullLocation]],
      [properties |-> [forecast |-> "url/forecast", relativeLocation |-> FullLocation]],
      [properties |-> [forecast |-> "url/forecast", observationStations |-> "url/stations"]],
      [properties |-> [forecast |-> "url/forecast", observationStations |-> "url/stations",
                       relativeLocation |-> [properties |-> [state |-> "IL"]]]],
      [properties |-> [forecast |-> "url/forecast", observationStations |-> "url/stations",
                       relativeLocation |-> [properties |-> [city |-> "Evanston"]]]],
      [status |-> 404] }

\* forecast periods are passed through as received; the third kind lacks the
\* detailedForecast key the prompt needs
Periods ==
    { [name |-> "Today", detailedForecast |-> "Sunny"],
      [name |-> "Tonight", detailedForecast |-> "Clear"],
      [name |-> "Monday"] }

PeriodSeqs == UNION { [1..n -> Periods] : n \in 0..MaxPeriods }

ForecastJsons ==
    { [properties |-> [periods |-> ps]] : ps \in PeriodSeqs }
    \cup { [properties |-> [units |-> "us"]], [status |-> 500] }

StationsJsons ==
    { [features |-> << [id |-> "url/stations/KORD"] >>],
      [features |-> << [id |-> "url/stations/KORD"], [id |-> "url/stations/KMDW"] >>],
      [features |-> << [type |-> "Feature"] >>],
      [features |-> <<>>],
      [type |-> "FeatureCollection"] }

Temperatures == {None, Some(10), Some(-5)}
WindSpeeds == {None, Some(5)}

Observation(t, w) ==
    [timestamp |-> "2024-11-05T12:00:00+00:00",
     temperature |-> [value |-> t],
     relativeHumidity |-> [value |-> Some(60)],
     windSpeed |-> [value |-> w],
     windDirection |-> [value |-> Some(270)],
     textDescription |-> "Cloudy"]

ObservationJsons ==
    { [properties |-> Observation(t, w)] : t \in Temperatures, w \in WindSpeeds }
    \cup { [properties |-> [timestamp |-> "2024-11-05T12:00:00+00:00",
                            temperature |-> None,
                            relativeHumidity |-> [value |-> Some(60)],
                            windSpeed |-> [value |-> Some(5)],
                            windDirection |-> [value |-> Some(270)],
                            textDescription |-> "Cloudy"]],
           [properties |-> [timestamp |-> "2024-11-05T12:00:00+00:00",
                            temperature |-> [value |-> Some(10)],
                            relativeHumidity |-> [value |-> Some(60)],
                            windDirection |-> [value |-> Some(270)],
                            textDescription |-> "Cloudy"]],
           [status |-> 503] }

---------------------------------------------------------------------------
(* WeatherGov: conversions and formatting *)

\* a missing reading taken for 0
celsius_to_fahrenheit_NoneAsZero(celsius) ==
    IF celsius = None THEN Some(32 * FScale)
    ELSE Some((celsius[1] * 9 * FScale) \div 5 + 32 * FScale)

\* None if celsius is None else (celsius * 9 / 5) + 32, in 1/FScale degree
celsius_to_fahrenheit(celsius) ==
    IF celsius = None THEN None
    ELSE Some((celsius[1] * 9 * FScale) \div 5 + 32 * FScale)

\* None if meters_per_second is None else meters_per_second * 2.237
ms_to_mph(meters_per_second) ==
    IF meters_per_second = None THEN None
    ELSE Some((meters_per_second[1] * 2237 * MphScale) \div 1000)

\* a key lookup of _format_location raises
FormatLocationRaises(point) ==
    \/ ~Has(point, "properties")
    \/ ~Has(point.properties, "relativeLocation")
    \/ ~Has(point.properties.relativeLocation, "properties")
    \/ ~Has(point.properties.relativeLocation.properties, "city")
    \/ ~Has(point.properties.relativeLocation.properties, "state")

format_location(point, lat, lon) ==
    [name |-> point.properties.relativeLocation.properties.city,
     state |-> point.properties.relativeLocation.properties.state,
     latitude |-> lat,
     longitude |-> lon]

ValueKeys == {"temperature", "relativeHumidity", "windSpeed", "windDirection"}

\* a key lookup of _format_current_conditions raises
FormatConditionsRaises(obs) ==
    \/ ~Has(obs, "properties")
    \/ ~Has(obs.properties, "timestamp")
    \/ ~Has(obs.properties, "textDescription")
    \/ \E k \in ValueKeys :
          \/ ~Has(obs.properties, k)
          \/ ~Has(obs.properties[k], "value")

format_current_conditions(obs) ==
    LET properties == obs.properties IN
    [timestamp |-> properties.timestamp,
     temperature_f |-> celsius_to_fahrenheit(properties.temperature.value),
     temperature_c |-> properties.temperature.value,
     humidity |-> properties.relativeHumidity.value,
     wind_speed_mph |-> ms_to_mph(properties.windSpeed.value),
     wind_direction |-> properties.windDirection.value,
     description |-> properties.textDescription]

\* forecast_data["properties"]["periods"] raises
PeriodsRaises(forecast) ==
    \/ ~Has(forecast, "properties")
    \/ ~Has(forecast.properties, "periods")

\* the periods passed on without the slice
ForecastSlice_All(periods) == periods

\* periods[:2]
ForecastSlice(periods) == SubSeq(periods, 1, Min(Len(periods), FORECAST_KEPT))

\* the location left out when the point lacks it, instead of failing the call
Snapshot_Partial(point, forecast, obs, lat, lon) ==
    IF FormatConditionsRaises(obs) \/ PeriodsRaises(forecast)
    THEN None
    ELSE IF FormatLocationRaises(point)
    THEN Some([current_conditions |-> format_current_conditions(obs),
               forecast |-> ForecastSlice(forecast.properties.periods)])
    ELSE Some([location |-> format_location(point, lat, lon),
               current_conditions |-> format_current_conditions(obs),
               forecast |-> ForecastSlice(forecast.properties.periods)])

\* lines 121-125: the returned dict, or None when building it raised
Snapshot(point, forecast, obs, lat, lon) ==
    IF \/ FormatLocationRaises(point)
       \/ FormatConditionsRaises(obs)
       \/ PeriodsRaises(forecast)
    THEN None
    ELSE Some([location |-> format_location(point, lat, lon),
               current_conditions |-> format_current_conditions(obs),
               forecast |-> ForecastSlice(forecast.properties.periods)])

---------------------------------------------------------------------------
(* WeatherGov.get_weather_data *)

\* the except clause of get_weather_data: log and return None
Weather_Fail(step) ==
    /\ wx_error' = step
    /\ logged' = Append(logged, "wx.exception")
    /\ weather_data' = None
    /\ pc' = "wx_returned"
    /\ Running

\* _get_point_data: GET /points/{lat},{lon}, raise_for_status, json()
Weather_GetPoint ==
    /\ pc = "wx_point"
    /\ calls' = Append(calls, "weather.points")
    /\ \/ /\ Weather_Fail("points")
          /\ UNCHANGED point_data
       \/ \E j \in PointJsons :
             /\ point_data' = Some(j)
             /\ pc' = "wx_forecast"
             /\ UNCHANGED <<wx_error, logged, weather_data>>
             /\ Running
    /\ UNCHANGED <<api_key, yt_vars, dl_vars, forecast_data, stations_data,
                   observation_data, gr_vars, report_file>>

\* _get_forecast_data: the URL is looked up before the request is made
Weather_GetForecast ==
    /\ pc = "wx_forecast"
    /\ IF ~Has(point_data[1], "properties") \/ ~Has(point_data[1].properties, "forecast")
       THEN /\ Weather_Fail("forecast_url")
            /\ UNCHANGED <<calls, forecast_data>>
       ELSE /\ calls' = Append(calls, "weather.forecast")
            /\ \/ /\ Weather_Fail("forecast")
                  /\ UNCHANGED forecast_data
               \/ \E j \in ForecastJsons :
                     /\ forecast_data' = Some(j)
                     /\ pc' = "wx_stations"
                     /\ UNCHANGED <<wx_error, logged, weather_data>>
                     /\ Running
    /\ UNCHANGED <<api_key, yt_vars, dl_vars, point_data, stations_data,
                   observation_data, gr_vars, report_file>>

\* _get_observation_data, lines 145-149: the stations list
Weather_GetStations ==
    /\ pc = "wx_stations"
    /\ IF ~Has(point_data[1].properties, "observationStations")
       THEN /\ Weather_Fail("stations_url")
            /\ UNCHANGED <<calls, stations_data>>
       ELSE /\ calls' = Append(calls, "weather.stations")
            /\ \/ /\ Weather_Fail("stations")
                  /\ UNCHANGED stations_data
               \/ \E j \in StationsJsons :
                     /\ stations_data' = Some(j)
                     /\ pc' = "wx_observation"
                     /\ UNCHANGED <<wx_error, logged, weather_data>>
                     /\ Running
    /\ UNCHANGED <<api_key, yt_vars, dl_vars, point_data, forecast_data,
                   observation_data, gr_vars, report_file>>

\* stations_data['features'][0]['id'] raises
StationIdRaises(stations) ==
    \/ ~Has(stations, "features")
    \/ stations.features = <<>>
    \/ ~Has(stations.features[1], "id")

\* _get_observation_data, lines 151-156: the first station's latest observation
Weather_GetObservation ==
    /\ pc = "wx_observation"
    /\ IF StationIdRaises(stations_data[1])
       THEN /\ Weather_Fail("station_id")
            /\ UNCHANGED <<calls, observation_data>>
       ELSE /\ calls' = Append(calls, "weather.observation")
            /\ \/ /\ Weather_Fail("observation")
                  /\ UNCHANGED observation_data
               \/ \E j \in ObservationJsons :
                     /\ observation_data' = Some(j)
                     /\ pc' = "wx_assemble"
                     /\ UNCHANGED <<wx_error, logged, weather_data>>
                     /\ Running
    /\ UNCHANGED <<api_key, yt_vars, dl_vars, point_data, forecast_data,
                   stations_data, gr_vars, report_file>>

\* lines 121-128: return {...}, or the except clause when building it raised
Weather_Assemble ==
    /\ pc = "wx_assemble"
    /\ LET snap == Snapshot(point_data[1], forecast_data[1], observation_data[1],
                            LATITUDE, LONGITUDE)
       IN IF snap = None
          THEN Weather_Fail("assemble")
          ELSE /\ weather_data' = snap
               /\ pc' = "wx_returned"
               /\ UNCHANGED <<wx_error, logged>>
               /\ Running
    /\ UNCHANGED <<api_key, calls, yt_vars, dl_vars, point_data, forecast_data,
                   stations_data, observation_data, gr_vars, report_file>>

\* if not weather_data: raise RuntimeError   (the callee's frame is gone)
Main_CheckWeather ==
    /\ pc = "wx_returned"
    /\ point_data' = None /\ forecast_data' = None
    /\ stations_data' = None /\ observation_data' = None
    /\ IF FalsyDict(weather_data)
       THEN Abort("RuntimeError", "main")
       ELSE pc' = "gr_init" /\ Running
    /\ UNCHANGED <<api_key, calls, logged, yt_vars, dl_vars, wx_error, weather_data,
                   gr_vars, report_file>>

---------------------------------------------------------------------------
(* WeatherReporter: text processing *)

HexDigits == {"0", "1", "2", "3", "4", "5", "6", "7", "8", "9",
              "a", "b", "c", "d", "e", "f", "A", "B", "C", "D", "E", "F"}

\* \w of Python's re on the characters the model uses
WordChars == HexDigits \cup {"g", "h", "i", "l", "n", "p", "s", "t", "w", "y",
                             "G", "I", "T", "_"}

Whitespace == {" ", "\n", "\t"}

\* the characters a model response is drawn from: the marker, a hex digit,
\* a word character that is no hex digit, and white space
Alphabet == {"#", "a", "g", " "}

Texts == UNION { [1..n -> Alphabet] : n \in 0..MaxLen }

IsWordAt(text, i) == i >= 1 /\ i <= Len(text) /\ text[i] \in WordChars

\* \b between text[i-1] and text[i]
Boundary(text, i) == IsWordAt(text, i - 1) # IsWordAt(text, i)

\* text[i .. i+n-1] exists and is made of hex digits
HexRun(text, i, n) ==
    /\ i + n - 1 <= Len(text)
    /\ \A j \in i..(i + n - 1) : text[j] \in HexDigits

\* length of the match of #(?:[0-9a-fA-F]{3}){1,2}\b starting at i, 0 if none:
\* the greedy {1,2} tries six digits first, then three
MatchLenAt(text, i) ==
    IF i > Len(text) \/ text[i] # "#" THEN 0
    ELSE IF HexRun(text, i + 1, 6) /\ Boundary(text, i + 7) THEN 7
    ELSE IF HexRun(text, i + 1, 3) /\ Boundary(text, i + 4) THEN 4
    ELSE 0

\* re.search: the leftmost position from i on where the pattern matches, 0 if none
RECURSIVE SearchFrom(_, _)
SearchFrom(text, i) ==
    IF i > Len(text) THEN 0
    ELSE IF MatchLenAt(text, i) > 0 THEN i
    ELSE SearchFrom(text, i + 1)

\* _extract_color_code: color_match.group(0) if color_match else None
extract_color_code(text) ==
    LET i == SearchFrom(text, 1) IN
    IF i = 0 THEN None ELSE Some(SubSeq(text, i, i + MatchLenAt(text, i) - 1))

OccursAt(text, old, i) ==
    /\ i + Len(old) - 1 <= Len(text)
    /\ SubSeq(text, i, i + Len(old) - 1) = old

\* str.replace(old, ""): every non-overlapping occurrence of old, scanning from
\* the left, is dropped; with old = "" the text comes back unchanged
RECURSIVE ReplaceFrom(_, _, _)
ReplaceFrom(text, old, i) ==
    IF i > Len(text) THEN <<>>
    ELSE IF OccursAt(text, old, i) THEN ReplaceFrom(text, old, i + Len(old))
    ELSE <<text[i]>> \o ReplaceFrom(text, old, i + 1)

str_replace(text, old) ==
    IF old = <<>> THEN text ELSE ReplaceFrom(text, old, 1)

\* str.rstrip()
RECURSIVE rstrip(_)
rstrip(text) ==
    IF text # <<>> /\ text[Len(text)] \in Whitespace
    THEN rstrip(SubSeq(text, 1, Len(text) - 1))
    ELSE text

\* response_text.replace(color_code or "", "").rstrip()
strip_color_code(text, color_code) ==
    rstrip(str_replace(text, IF color_code = None THEN <<>> ELSE color_code[1]))

\* lines 295-302: the dict generate_report returns
Report(weather, text) ==
    LET color_code == extract_color_code(text) IN
    [forecast_data |-> weather,
     weather_report |-> strip_color_code(text, color_code),
     color_code |-> color_code,
     timestamp |-> "local time"]

---------------------------------------------------------------------------
(* WeatherReporter.generate_report *)

\* period['name'] or period['detailedForecast'] raises in _format_forecast_periods
PreparePromptRaises(weather) ==
    \E i \in 1..Len(weather.forecast) :
        \/ ~Has(weather.forecast[i], "name")
        \/ ~Has(weather.forecast[i], "detailedForecast")

\* _prepare_forecast_prompt: the values substituted into PROMPT_TEMPLATE
PreparePrompt(weather) ==
    LET conditions == weather.current_conditions IN
    [current_conditions |-> <<conditions.temperature_f, conditions.humidity,
                              conditions.wind_speed_mph, conditions.wind_direction,
                              conditions.description>>,
     forecast_periods |-> [i \in 1..Len(weather.forecast) |->
                              <<weather.forecast[i].name,
                                weather.forecast[i].detailedForecast>>],
     current_time |-> "local time"]

\* "It will be a pleasant day. #3a7bd5"
PleasantDay ==
    <<"I", "t", " ", "w", "i", "l", "l", " ", "b", "e", " ", "a", " ", "p",
       "l", "e", "a", "s", "a", "n", "t", " ", "d", "a", "y", ".", " ", "#",
       "3", "a", "7", "b", "d", "5">>

\* "Fog.\n#abc\n"
FogOwnLine ==
    <<"F", "o", "g", ".", "\n", "#", "a", "b", "c", "\n">>

\* "Windy. " with no colour code
WindyNoCode ==
    <<"W", "i", "n", "d", "y", ".", " ">>

\* the code quoted in the prose and given again at the end
CodeTwice ==
    <<"#", "a", "b", "c", "#", "a", "b", "c">>

\* model responses of the pipeline runs
SampleTexts == {PleasantDay, FogOwnLine, WindyNoCode, CodeTwice}

\* reporter = WeatherReporter(): llm.get_model returns or raises
Main_NewReporter ==
    /\ pc = "gr_init"
    /\ \E ok \in BOOLEAN :
          IF ok THEN pc' = "gr_prepare" /\ Running
          ELSE Abort("UnknownModelError", "WeatherReporter.__init__")
    /\ UNCHANGED <<api_key, calls, logged, yt_vars, dl_vars, wx_vars, gr_vars,
                   report_file>>

\* line 289: forecasts = self._prepare_forecast_prompt(weather_data)
GenerateReport_PreparePrompt ==
    /\ pc = "gr_prepare"
    /\ IF PreparePromptRaises(weather_data[1])
       THEN /\ Abort("KeyError", "generate_report")
            /\ UNCHANGED prompt
       ELSE /\ prompt' = Some(PreparePrompt(weather_data[1]))
            /\ pc' = "gr_prompt"
            /\ Running
    /\ UNCHANGED <<api_key, calls, logged, yt_vars, dl_vars, wx_vars, response_text,
                   result, report_file>>

\* the model call wrapped in try/except like the other stages: a diagnostic is
\* logged, None is returned and main raises on it
GenerateReport_Prompt_Caught ==
    /\ pc = "gr_prompt"
    /\ calls' = Append(calls, "model.prompt")
    /\ \/ /\ Abort("RuntimeError", "main")
          /\ logged' = Append(logged, "gr.exception")
          /\ UNCHANGED response_text
       \/ \E text \in SampleTexts :
             /\ response_text' = Some(text)
             /\ pc' = "gr_post"
             /\ Running
             /\ UNCHANGED logged
    /\ UNCHANGED <<api_key, yt_vars, dl_vars, wx_vars, prompt, result, report_file>>

\* lines 290-294: the model call; nothing in generate_report catches its exception
GenerateReport_Prompt ==
    /\ pc = "gr_prompt"
    /\ calls' = Append(calls, "model.prompt")
    /\ \/ /\ Abort("ModelError", "generate_report")
          /\ UNCHANGED response_text
       \/ \E text \in SampleTexts :
             /\ response_text' = Some(text)
             /\ pc' = "gr_post"
             /\ Running
    /\ UNCHANGED <<api_key, logged, yt_vars, dl_vars, wx_vars, prompt, result,
                   report_file>>

\* lines 295-302: extract the colour code, strip it, return the dict
GenerateReport_Return ==
    /\ pc = "gr_post"
    /\ result' = Some(Report(weather_data[1], response_text[1]))
    /\ pc' = "gr_returned"
    /\ Running
    /\ UNCHANGED <<api_key, calls, logged, yt_vars, dl_vars, wx_vars, prompt,
                   response_text, report_file>>

---------------------------------------------------------------------------
(* main(), lines 363-364: weather_report.json *)

\* open("weather_report.json", "w"): creates or truncates the file, or raises
Main_OpenReport ==
    /\ pc = "gr_returned"
    /\ prompt' = None /\ response_text' = None
    /\ calls' = Append(calls, "open.weather_report.json")
    /\ \/ /\ report_file' = [exists |-> TRUE, opened |-> TRUE, content |-> <<>>]
          /\ pc' = "dump"
          /\ Running
       \/ /\ Abort("OSError", "main")
          /\ UNCHANGED report_file
    /\ UNCHANGED <<api_key, logged, yt_vars, dl_vars, wx_vars, result>>

\* json.dump(result, f, indent=4), then main returns: exit status 0
Main_DumpReport ==
    /\ pc = "dump"
    /\ \/ /\ report_file' = [report_file EXCEPT !.content = <<result[1]>>]
          /\ pc' = "exited"
          /\ exit_code' = Some(0)
          /\ UNCHANGED <<raised, escaped_from>>
       \/ /\ Abort("OSError", "main")
          /\ UNCHANGED report_file
    /\ UNCHANGED <<api_key, calls, logged, yt_vars, dl_vars, wx_vars, gr_vars>>

---------------------------------------------------------------------------
(* The run *)

\* what an earlier run left in weather_report.json
PreviousReport ==
    [forecast_data |-> [location |-> "earlier run"],
     weather_report |-> <<"F", "o", "g", ".">>,
     color_code |-> None,
     timestamp |-> "earlier"]

\* what an earlier run left in capture_latest.jpg
PreviousCapture == <<0>>

Init ==
    /\ pc = "start"
    /\ api_key \in {None, Some(""), Some("key")}
    /\ exit_code = None
    /\ raised = ""
    /\ escaped_from = ""
    /\ calls = <<>>
    /\ logged = <<>>
    /\ response = None
    /\ thumbnail_url = None
    /\ body = <<>>
    /\ fail_at = 0
    /\ chunks_read = 0
    /\ dl_error = ""
    /\ dated_file = None
    /\ latest_file \in {None, Some(PreviousCapture)}
    /\ latest_before = None
    /\ captured_file = None
    /\ point_data = None
    /\ forecast_data = None
    /\ stations_data = None
    /\ observation_data = None
    /\ wx_error = ""
    /\ weather_data = None
    /\ prompt = None
    /\ response_text = None
    /\ result = None
    /\ report_file \in {[exists |-> FALSE, opened |-> FALSE, content |-> <<>>],
                        [exists |-> TRUE, opened |-> FALSE,
                         content |-> <<PreviousReport>>]}

Next ==
    \/ Main_GetApiKey
    \/ Main_BuildClient
    \/ GetLiveThumbnail_Execute
    \/ GetLiveThumbnail_Select
    \/ Main_CheckThumbnail
    \/ Download_Request
    \/ Download_OpenDated
    \/ Download_WriteChunk
    \/ Download_OpenLatest
    \/ Download_CopyLatest
    \/ Main_CheckDownload
    \/ Weather_GetPoint
    \/ Weather_GetForecast
    \/ Weather_GetStations
    \/ Weather_GetObservation
    \/ Weather_Assemble
    \/ Main_CheckWeather
    \/ Main_NewReporter
    \/ GenerateReport_PreparePrompt
    \/ GenerateReport_Prompt
    \/ GenerateReport_Return
    \/ Main_OpenReport
    \/ Main_DumpReport

Spec == Init /\ [][Next]_vars

---------------------------------------------------------------------------
(* generate_report's post-processing on every model response up to MaxLen *)

\* the snapshot of a run whose weather fetch succeeded: 10 C, 5 m/s, two periods
SampleWeather ==
    Snapshot([properties |-> [forecast |-> "url/forecast",
                              observationStations |-> "url/stations",
                              relativeLocation |-> FullLocation]],
             [properties |-> [periods |->
                 << [name |-> "Today", detailedForecast |-> "Sunny"],
                    [name |-> "Tonight", detailedForecast |-> "Clear"] >>]],
             [properties |-> Observation(Some(10), Some(5))],
             LATITUDE, LONGITUDE)

\* the run has reached line 294 with the model's response in hand
InitReport ==
    /\ pc = "gr_post"
    /\ api_key = Some("key")
    /\ exit_code = None
    /\ raised = ""
    /\ escaped_from = ""
    /\ calls = <<"youtube.videos.list", "thumbnail.get", "weather.points",
                 "weather.forecast", "weather.stations", "weather.observation",
                 "model.prompt">>
    /\ logged = <<>>
    /\ response = None
    /\ thumbnail_url = Some(ThumbnailUrl("maxres").url)
    /\ body = <<>>
    /\ fail_at = 0
    /\ chunks_read = 0
    /\ dl_error = ""
    /\ dated_file = Some(Body(1))
    /\ latest_file = Some(Body(1))
    /\ latest_before = None
    /\ captured_file = Some("capture_timestamp.jpg")
    /\ point_data = None
    /\ forecast_data = None
    /\ stations_data = None
    /\ observation_data = None
    /\ wx_error = ""
    /\ weather_data = SampleWeather
    /\ prompt = Some(PreparePrompt(SampleWeather[1]))
    /\ response_text \in { Some(text) : text \in Texts }
    /\ result = None
    /\ report_file = [exists |-> FALSE, opened |-> FALSE, content |-> <<>>]

NextReport == GenerateReport_Return \/ Main_OpenReport \/ Main_DumpReport

SpecReport == InitReport /\ [][NextReport]_vars

---------------------------------------------------------------------------
(* Properties *)

LastLog == IF logged = <<>> THEN "" ELSE logged[Len(logged)]

Called(c) == \E i \in 1..Len(calls) : calls[i] = c

Logged(m) == \E i \in 1..Len(logged) : logged[i] = m

BeforeDownload == pc \in {"start", "yt_build", "yt_execute", "yt_select", "yt_returned"}

\* the response is a live video whose thumbnail entries all carry a url
WellFormedLive(r) ==
    /\ Has(r, "items")
    /\ r.items # <<>>
    /\ Has(r.items[1], "liveStreamingDetails")
    /\ Has(r.items[1], "snippet")
    /\ \A q \in DOMAIN r.items[1].snippet.thumbnails :
          Has(r.items[1].snippet.thumbnails[q], "url")

\* the highest tier present, maxres over high over default
BestUrl(t) ==
    IF Has(t, "maxres") THEN Some(t.maxres.url)
    ELSE IF Has(t, "high") THEN Some(t.high.url)
    ELSE IF Has(t, "default") THEN Some(t.default.url)
    ELSE None

\* C9: get_live_thumbnail returns None, logging "not found", when the lookup
\* has no items, and None, logging "not a livestream", when the first item has
\* no liveStreamingDetails; for a live video it returns the url of the highest
\* tier present (maxres, high, default) and None when no tier is present; and
\* main never goes on to the download with an absent or empty url: it exits
\* with status 1 having made no call but the lookup.
C9_ThumbnailChoice ==
    /\ (pc = "yt_returned" /\ response # None) =>
          LET r == response[1] IN
          /\ (Has(r, "items") /\ r.items = <<>>) =>
                (thumbnail_url = None /\ LastLog = "yt.not_found")
          /\ (Has(r, "items") /\ r.items # <<>>
                /\ ~Has(r.items[1], "liveStreamingDetails")) =>
                (thumbnail_url = None /\ LastLog = "yt.not_live")
          /\ WellFormedLive(r) =>
                thumbnail_url = BestUrl(r.items[1].snippet.thumbnails)
    /\ (~BeforeDownload /\ Called("youtube.videos.list") /\ Falsy(thumbnail_url)) =>
          /\ pc = "exited"
          /\ exit_code = Some(1)
          /\ raised = "RuntimeError"
          /\ calls = <<"youtube.videos.list">>

\* a live video with the high and default tiers but no maxres: high is returned
C9_Witness ==
    /\ pc = "yt_returned"
    /\ response # None
    /\ WellFormedLive(response[1])
    /\ DOMAIN response[1].items[1].snippet.thumbnails = {"high", "default"}
    /\ thumbnail_url = Some(ThumbnailUrl("high").url)

InDownload == pc \in {"dl_open", "dl_write", "dl_copy_open", "dl_copy", "dl_returned"}

\* C10: inside download, capture_latest.jpg differs from its content at the
\* call only once the dated file holds the whole body; when download returns
\* a file name the two files are identical and hold the body; and when the
\* request or the body transfer failed, download returns None and
\* capture_latest.jpg is as it was at the call.
C10_LatestAfterDated ==
    /\ (InDownload /\ latest_file # latest_before) =>
          /\ dated_file = Some(body)
          /\ chunks_read = Len(body)
    /\ (pc = "dl_returned" /\ captured_file # None) =>
          /\ latest_file = dated_file
          /\ dated_file = Some(body)
    /\ dl_error \in {"request", "transfer"} =>
          /\ captured_file = None
          /\ latest_file = latest_before

\* the transfer broke after a chunk was written: the dated file is partial and
\* the earlier capture_latest.jpg is still there
C10_Witness ==
    /\ pc = "dl_returned"
    /\ dl_error = "transfer"
    /\ chunks_read >= 1
    /\ dated_file = Some(SubSeq(body, 1, chunks_read))
    /\ Len(body) > chunks_read
    /\ latest_file = Some(PreviousCapture)

\* C7: the forecast of the snapshot get_weather_data returns is the prefix of
\* the upstream periods of length min(N, 2), in order and unmodified; no
\* snapshot holds more than 2 periods.
C7_ForecastPrefix ==
    /\ (pc = "wx_returned" /\ weather_data # None) =>
          LET ps == forecast_data[1].properties.periods
              f == weather_data[1].forecast
          IN /\ Len(f) = (IF Len(ps) >= 2 THEN 2 ELSE Len(ps))
             /\ \A i \in 1..Len(f) : f[i] = ps[i]
    /\ weather_data # None => Len(weather_data[1].forecast) <= 2

\* three periods upstream, two different ones kept
C7_Witness ==
    /\ pc = "wx_returned"
    /\ weather_data # None
    /\ Len(forecast_data[1].properties.periods) = 3
    /\ Len(weather_data[1].forecast) = 2
    /\ weather_data[1].forecast[1] # weather_data[1].forecast[2]

\* the point, forecast and observation responses carry every field the
\* snapshot is built from
PointComplete(p) ==
    /\ Has(p, "properties")
    /\ Has(p.properties, "forecast")
    /\ Has(p.properties, "observationStations")
    /\ Has(p.properties, "relativeLocation")
    /\ Has(p.properties.relativeLocation.properties, "city")
    /\ Has(p.properties.relativeLocation.properties, "state")

ForecastComplete(f) == Has(f, "properties") /\ Has(f.properties, "periods")

ObservationComplete(o) ==
    /\ Has(o, "properties")
    /\ \A k \in {"temperature", "relativeHumidity", "windSpeed", "windDirection"} :
          Has(o.properties, k) /\ Has(o.properties[k], "value")

\* C8: the conversions return None for None, and c*9/5+32 and v*2.237 for a
\* number (10 C is 50 F, 5 m/s is 11.185 mph); when every response is complete,
\* get_weather_data returns a snapshot whatever the temperature and wind-speed
\* values are, with temperature_f (wind_speed_mph) None exactly when the
\* observed value is None and the converted value otherwise, and with the
\* other fields of current_conditions as observed.
C8_Conversions ==
    /\ celsius_to_fahrenheit(None) = None
    /\ ms_to_mph(None) = None
    /\ celsius_to_fahrenheit(Some(10)) = Some(50 * FScale)
    /\ 1000 * ms_to_mph(Some(5))[1] = 11185 * MphScale
    /\ (/\ pc = "wx_returned"
        /\ observation_data # None
        /\ PointComplete(point_data[1])
        /\ ForecastComplete(forecast_data[1])
        /\ ObservationComplete(observation_data[1])) =>
          /\ weather_data # None
          /\ LET o == observation_data[1].properties
                 c == weather_data[1].current_conditions
                 t == o.temperature.value
                 w == o.windSpeed.value
             IN /\ c.temperature_c = t
                /\ (t = None) = (c.temperature_f = None)
                /\ t # None => 5 * c.temperature_f[1] = (t[1] * 9 + 160) * FScale
                /\ (w = None) = (c.wind_speed_mph = None)
                /\ w # None => 1000 * c.wind_speed_mph[1] = w[1] * 2237 * MphScale
                /\ c.humidity = o.relativeHumidity.value
                /\ c.wind_direction = o.windDirection.value
                /\ c.description = o.textDescription
                /\ c.timestamp = o.timestamp

\* an observation without a temperature but with a wind speed of 5 m/s
C8_Witness ==
    /\ pc = "wx_returned"
    /\ weather_data # None
    /\ observation_data[1].properties.temperature.value = None
    /\ weather_data[1].current_conditions.temperature_f = None
    /\ weather_data[1].current_conditions.wind_speed_mph = Some(11185)

\* every request was answered and every expected field is there
WeatherComplete ==
    /\ point_data # None /\ PointComplete(point_data[1])
    /\ forecast_data # None /\ ForecastComplete(forecast_data[1])
    /\ stations_data # None
    /\ Has(stations_data[1], "features")
    /\ stations_data[1].features # <<>>
    /\ Has(stations_data[1].features[1], "id")
    /\ observation_data # None /\ Has(observation_data[1], "properties")

\* C3: when get_weather_data returns, no exception has escaped it; if a
\* request failed or an expected field is missing it has returned None, and a
\* snapshot it returns has exactly the keys location, current_conditions and
\* forecast and was built after all four requests were answered.
C3_AllOrNothing ==
    /\ pc = "wx_returned" =>
          /\ raised = "" /\ exit_code = None
          /\ ~WeatherComplete => weather_data = None
          /\ wx_error # "" => (weather_data = None /\ LastLog = "wx.exception")
          /\ weather_data # None =>
                /\ WeatherComplete
                /\ wx_error = ""
                /\ Called("weather.points") /\ Called("weather.forecast")
                /\ Called("weather.stations") /\ Called("weather.observation")
    /\ weather_data # None =>
          DOMAIN weather_data[1] = {"location", "current_conditions", "forecast"}

\* all four requests answered, the city missing from the point: None
C3_Witness ==
    /\ pc = "wx_returned"
    /\ observation_data # None
    /\ ObservationComplete(observation_data[1])
    /\ ForecastComplete(forecast_data[1])
    /\ Has(point_data[1].properties, "relativeLocation")
    /\ ~Has(point_data[1].properties.relativeLocation.properties, "city")
    /\ weather_data = None
    /\ wx_error = "assemble"

LastCall == IF calls = <<>> THEN "" ELSE calls[Len(calls)]

\* the report file as an earlier run left it
ReportUntouched ==
    /\ ~report_file.opened
    /\ ~Called("open.weather_report.json")
    /\ \/ report_file = [exists |-> FALSE, opened |-> FALSE, content |-> <<>>]
       \/ report_file = [exists |-> TRUE, opened |-> FALSE,
                         content |-> <<PreviousReport>>]

\* a stage of the run has failed: the credential is missing, the lookup has
\* returned no url, the download or the weather fetch has raised inside, or
\* the model call has raised
StageFailed ==
    \/ api_key = None \/ api_key = Some("")
    \/ /\ Called("youtube.videos.list")
       /\ pc # "yt_select"
       /\ (thumbnail_url = None \/ thumbnail_url = Some(""))
    \/ dl_error # ""
    \/ wx_error # ""
    \/ raised = "ModelError"

\* C1: once a stage has failed the run is at the check that aborts it or has
\* exited, it never exits with status 0, and weather_report.json is neither
\* opened nor written; a run that has exited has status 0 or 1, and status 0
\* only with weather_report.json opened and holding the result.
C1_FailureWritesNothing ==
    /\ StageFailed =>
          /\ pc \in {"start", "yt_returned", "dl_returned", "wx_returned", "exited"}
          /\ exit_code # Some(0)
          /\ pc = "exited" => exit_code = Some(1)
          /\ ReportUntouched
    /\ pc = "exited" => exit_code \in {Some(0), Some(1)}
    /\ pc # "exited" => exit_code = None
    /\ exit_code = Some(0) =>
          /\ ~StageFailed
          /\ report_file.opened
          /\ report_file.content = <<result[1]>>

\* the model call raised: status 1, and the earlier run's report is still there
C1_Witness ==
    /\ pc = "exited"
    /\ raised = "ModelError"
    /\ exit_code = Some(1)
    /\ report_file = [exists |-> TRUE, opened |-> FALSE, content |-> <<PreviousReport>>]

\* the external calls of a complete run, in the order main makes them
StageOrder ==
    <<"youtube.videos.list", "thumbnail.get", "weather.points", "weather.forecast",
      "weather.stations", "weather.observation", "model.prompt",
      "open.weather_report.json">>

IsPrefix(a, b) == Len(a) <= Len(b) /\ \A i \in 1..Len(a) : a[i] = b[i]

\* C2: the external calls made so far are a prefix of the stage order lookup,
\* download, weather requests, model call, file open; a stage's call has been
\* made only if every earlier stage returned a result; the prompt is composed
\* after the weather fetch and before the model call; and once the lookup has
\* reported a video that is not live, no weather request is ever made.
C2_StageOrder ==
    /\ IsPrefix(calls, StageOrder)
    /\ Called("thumbnail.get") =>
          (thumbnail_url # None /\ thumbnail_url # Some(""))
    /\ Called("weather.points") =>
          /\ thumbnail_url # None /\ thumbnail_url # Some("")
          /\ captured_file # None
          /\ dl_error = ""
    /\ prompt # None => (weather_data # None /\ Called("weather.observation"))
    /\ Called("model.prompt") =>
          /\ weather_data # None
          /\ wx_error = ""
          /\ pc \in {"gr_post", "gr_returned"} => prompt # None
    /\ Called("open.weather_report.json") =>
          (result # None /\ Called("model.prompt"))
    /\ Logged("yt.not_live") =>
          /\ pc \in {"yt_returned", "exited"}
          /\ calls = <<"youtube.videos.list">>

\* the video is not live: the run has ended with the lookup as its only call
C2_Witness ==
    /\ pc = "exited"
    /\ Logged("yt.not_live")
    /\ exit_code = Some(1)
    /\ calls = <<"youtube.videos.list">>

\* C4 (as stated): when the model call inside generate_report fails, the stage
\* logs a diagnostic and hands an absent result to main, and the exception
\* that ends the run is the one main raises on it.
C4_ReportStageCatches ==
    (pc = "exited" /\ LastCall = "model.prompt") =>
        /\ escaped_from = "main"
        /\ logged # <<>>

\* C4 (amended): the lookup, the download and the weather fetch return to
\* main without an exception, with None and a logged diagnostic when their
\* call raised, and main then ends the run with its own RuntimeError; a
\* failing model call is not caught: its exception leaves generate_report
\* and main, nothing is logged, no result exists and the report is not opened.
C4_StagesCatchExceptReport ==
    /\ pc \in {"yt_returned", "dl_returned", "wx_returned"} =>
          (raised = "" /\ exit_code = None)
    /\ (pc = "yt_returned" /\ response = None) =>
          (thumbnail_url = None /\ LastLog = "yt.exception")
    /\ dl_error # "" => (captured_file = None /\ Logged("dl.exception"))
    /\ wx_error # "" => (weather_data = None /\ Logged("wx.exception"))
    /\ (/\ pc = "exited"
        /\ \/ Called("youtube.videos.list") /\ Falsy(thumbnail_url)
           \/ dl_error # ""
           \/ wx_error # "") =>
          /\ raised = "RuntimeError"
          /\ escaped_from = "main"
          /\ exit_code = Some(1)
    /\ (pc = "exited" /\ LastCall = "model.prompt") =>
          /\ raised = "ModelError"
          /\ escaped_from = "generate_report"
          /\ exit_code = Some(1)
          /\ logged = <<>>
          /\ result = None
          /\ ~report_file.opened

\* the run ended by the model call's exception leaving generate_report
C4_Witness ==
    /\ pc = "exited"
    /\ LastCall = "model.prompt"
    /\ escaped_from = "generate_report"
    /\ weather_data # None
    /\ result = None

\* the positions where the colour pattern matches
MatchPositions(text) == { i \in 1..Len(text) : MatchLenAt(text, i) > 0 }

\* text without its n characters from position i on
RemoveSpan(text, i, n) == SubSeq(text, 1, i - 1) \o SubSeq(text, i + n, Len(text))

\* C5: for a response with exactly one match of the colour pattern,
\* color_code is that match and weather_report is the response with that one
\* substring removed and trailing white space trimmed, every other character
\* kept.
C5_OneCodeRemoved ==
    pc = "gr_returned" =>
        LET text == response_text[1]
            ms == MatchPositions(text)
        IN Cardinality(ms) = 1 =>
              LET i == CHOOSE j \in ms : TRUE
                  n == MatchLenAt(text, i)
              IN /\ result[1].color_code = Some(SubSeq(text, i, i + n - 1))
                 /\ result[1].weather_report = rstrip(RemoveSpan(text, i, n))

\* the first position where old occurs in text, 0 if none
FirstOccurrence(text, old) ==
    LET at == { i \in 1..Len(text) : OccursAt(text, old, i) }
    IN IF at = {} THEN 0 ELSE CHOOSE i \in at : \A j \in at : i <= j

\* C6: color_code is the leftmost match of the colour pattern and
\* weather_report is the response with only the first occurrence of that code
\* removed, then trailing white space trimmed; with no match color_code is
\* None and weather_report is the response with trailing white space trimmed.
C6_FirstOccurrenceRemoved ==
    pc = "gr_returned" =>
        LET text == response_text[1]
            ms == MatchPositions(text)
        IN IF ms = {}
           THEN /\ result[1].color_code = None
                /\ result[1].weather_report = rstrip(text)
           ELSE LET i == CHOOSE j \in ms : \A k \in ms : j <= k
                    code == SubSeq(text, i, i + MatchLenAt(text, i) - 1)
                IN /\ result[1].color_code = Some(code)
                   /\ result[1].weather_report =
                         rstrip(RemoveSpan(text, FirstOccurrence(text, code), Len(code)))

=============================================================================
